---- MODULE Spec2Model ----
(***************************************************************************)
(* The network store of the diagram editor (zustand store over             *)
(* @xyflow/react), in its two variants:                                    *)
(*   "runningCount" : src/unnamed/part_000  (labels C{n}, has              *)
(*                    deleteElement, updateEdgeData is an empty body)      *)
(*   "idLabel"      : src/client/src/lib/store.ts (labels C-{id}, has no   *)
(*                    deleteElement, updateEdgeData restyles the edge)     *)
(* Strings that the code builds or parses (ids, labels) are sequences of   *)
(* one-character strings; strings it only stores are TLA+ strings.         *)
(***************************************************************************)
EXTENDS Integers, Sequences, FiniteSets, TLC

VARIABLES
    variant,              \* which of the two store files is running
    nodes,                \* NetworkState.nodes
    edges,                \* NetworkState.edges
    selectedElementId,    \* NetworkState.selectedElementId
    selectedElementType,  \* NetworkState.selectedElementType
    idCounter,            \* module-level `let idCounter`
    lastOp,               \* history: the store action that produced this state
    issuedSinceLoad,      \* history: ids getId returned since start / last loadNetwork
    issuedSinceReset,     \* history: ids getId returned since start / last loadNetwork or clearNetwork
    pending               \* the handler whose set() is notifying the subscribers, or "idle"

vars == <<variant, nodes, edges, selectedElementId, selectedElementType,
          idCounter, lastOp, issuedSinceLoad, issuedSinceReset, pending>>

storeVars == <<nodes, edges, selectedElementId, selectedElementType, idCounter>>

\* ------------------------------------------------------------------ bounds
MaxIssued == 3     \* getId calls modelled between two loadNetwork calls
MaxNodes == 2      \* length of the node collection that addNode still extends
MaxEdges == 2      \* length of the edge collection that onConnect still extends
MaxChanges == 1    \* length of a change batch given to onNodesChange / onEdgesChange

\* ------------------------------------------------------------- JS values
NULL == <<"null">>        \* JavaScript null where the other values are character sequences
NULLTYPE == "null"        \* JavaScript null where the other values are 'node' | 'edge'
Variants == {"runningCount", "idLabel"}

DigitChars == <<"0", "1", "2", "3", "4", "5", "6", "7", "8", "9">>
HexChars == <<"0", "1", "2", "3", "4", "5", "6", "7", "8", "9",
              "a", "b", "c", "d", "e", "f">>

IndexOf(c, chars) ==
    IF \E i \in 1..Len(chars) : chars[i] = c
    THEN (CHOOSE i \in 1..Len(chars) : chars[i] = c) - 1
    ELSE -1

\* `${n}` for a non-negative integer n: its decimal digits.
RECURSIVE NumToString(_)
NumToString(n) ==
    IF n < 10 THEN <<DigitChars[n + 1]>>
    ELSE NumToString(n \div 10) \o <<DigitChars[(n % 10) + 1]>>

\* parseInt(s) without a radix: skips leading white space, reads an optional
\* sign, a 0x prefix switches to base 16, then the longest run of digits;
\* NaN when there is no digit.  The result is [nan, val].
SkipSpace(s) ==
    LET first == IF \E i \in 1..Len(s) : s[i] # " "
                 THEN CHOOSE i \in 1..Len(s) :
                          s[i] # " " /\ \A j \in 1..(i - 1) : s[j] = " "
                 ELSE Len(s) + 1
    IN SubSeq(s, first, Len(s))

RECURSIVE ReadDigits(_, _, _, _)
ReadDigits(s, chars, acc, seen) ==
    IF s # <<>> /\ IndexOf(s[1], chars) >= 0
    THEN ReadDigits(Tail(s), chars, acc * Len(chars) + IndexOf(s[1], chars), TRUE)
    ELSE [nan |-> ~seen, val |-> acc]

parseInt(str) ==
    LET t == SkipSpace(str)
        neg == t # <<>> /\ t[1] = "-"
        u == IF t # <<>> /\ t[1] \in {"-", "+"} THEN Tail(t) ELSE t
        hex == Len(u) >= 2 /\ u[1] = "0" /\ u[2] \in {"x", "X"}
        r == IF hex THEN ReadDigits(Tail(Tail(u)), HexChars, 0, FALSE)
             ELSE ReadDigits(u, DigitChars, 0, FALSE)
    IN [nan |-> r.nan, val |-> IF neg THEN 0 - r.val ELSE r.val]

\* `parseInt(x) || 0`: NaN and 0 are falsy.
OrZero(p) == IF p.nan THEN 0 ELSE p.val

\* Math.max(...values, 0)
MathMax0(S) == CHOOSE y \in S \cup {0} : \A z \in S \cup {0} : z <= y

\* { ...a, ...b } on attribute bags (records as functions over their keys)
Spread(a, b) ==
    [k \in DOMAIN a \cup DOMAIN b |-> IF k \in DOMAIN b THEN b[k] ELSE a[k]]

Ids(seq) == {seq[i].id : i \in DOMAIN seq}

\* ------------------------------------------------------------- inputs
\* What the callers pass in: small sets of the values the signatures accept.
NodeTypes == {"reservoir", "node", "junction", "surgeTank", "flowBoundary"}
AddTypes == {"node"}                     \* the variants addNode is called with
Positions == {[x |-> 40, y |-> 30]}
DropPositions == {[x |-> 40, y |-> 30], [x |-> 0, y |-> -5]}
Handles == {NULL}
Kinds == {"node", "edge"}

\* ids that callers name in connect / select / update / delete / changes
RefIds == {<<"1">>, <<"2">>}
\* what selectElement is called with: both null, both set, or only one of them
Selections ==
    {<<NULL, NULLTYPE>>, <<<<"1">>, "node">>, <<<<"2">>, "edge">>, <<<<"1">>, NULLTYPE>>}
\* connection endpoints: an empty source or target is a malformed candidate
Connection(source, target, sourceHandle) ==
    [source |-> source, target |-> target, sourceHandle |-> sourceHandle,
     targetHandle |-> NULL]
Connections ==
    {Connection(<<"1">>, <<"2">>, h) : h \in Handles}
    \cup {Connection(<<"2">>, <<"2">>, NULL), Connection(<<>>, <<"2">>, NULL)}

BLUE == "#3b82f6"
GRAY == "#94a3b8"
SLATE == "#64748b"
ArrowClosed == "arrowclosed"          \* MarkerType.ArrowClosed

\* ------------------------------------------------------------- elements
\* src/unnamed/part_000:122-153, src/client/src/lib/store.ts:114-145
\* an addNode that gives every variant the defaults of 'node' (fault seeded
\* for C13)
initialDataAllPlain(type, id) ==
    [label |-> <<"N", "o", "d", "e", " ">> \o NumToString(parseInt(id).val),
     type |-> type, nodeNumber |-> parseInt(id).val, elevation |-> 50]
initialData(type, id) ==
    LET base == [label |-> <<>>, type |-> type]
        nodeNumber == parseInt(id).val
    IN CASE type = "reservoir" ->
                Spread(base, [label |-> <<"H", "W">>, nodeNumber |-> nodeNumber,
                              elevation |-> 100])
         [] type \in {"node", "junction"} ->
                Spread(base, [label |-> <<"N", "o", "d", "e", " ">> \o NumToString(nodeNumber),
                              nodeNumber |-> nodeNumber, elevation |-> 50])
         [] type = "surgeTank" ->
                Spread(base, [label |-> <<"S", "T">>, nodeNumber |-> nodeNumber,
                              topElevation |-> 120, bottomElevation |-> 80,
                              diameter |-> "5", celerity |-> 1000, friction |-> "0.01"])
         [] type = "flowBoundary" ->
                Spread(base, [label |-> <<"F", "B">> \o id, nodeNumber |-> nodeNumber,
                              scheduleNumber |-> 1])
         [] OTHER -> base

newNode(id, type, position) ==
    [id |-> id, type |-> type, position |-> position, data |-> initialData(type, id)]

\* the engineering defaults of a new connection (both variants)
edgeDefaults(label) ==
    [label |-> label, type |-> "conduit", length |-> 1000, diameter |-> "0.5",
     celerity |-> 1000, friction |-> "0.02", numSegments |-> 1]

styleOf(color) == [stroke |-> color, strokeWidth |-> 2]
dashedStyleOf(color) == [stroke |-> color, strokeWidth |-> 2, strokeDasharray |-> "5,5"]
markerOf(color) == [type |-> ArrowClosed, color |-> color]

\* conduitCount of src/unnamed/part_000:93
conduitCount(es) ==
    Cardinality({i \in DOMAIN es : "data" \in DOMAIN es[i] /\ es[i].data.type = "conduit"})

\* the edge parameters onConnect hands to addEdge
edgeParams(v, connection, id, es) ==
    IF v = "runningCount"
    THEN Spread(connection,
                [id |-> id, type |-> "connection", style |-> styleOf(SLATE),
                 markerEnd |-> markerOf(SLATE),
                 data |-> edgeDefaults(<<"C">> \o NumToString(conduitCount(es) + 1))])
    ELSE Spread(connection,
                [id |-> id, type |-> "conduit", style |-> styleOf(BLUE),
                 markerEnd |-> markerOf(BLUE),
                 data |-> edgeDefaults(<<"C", "-">> \o id)])

\* ------------------------------------------- @xyflow/react, as imported
\* addEdge(edgeParams, edges): a candidate without source or target, or one
\* that connects the same endpoints through the same handles as an edge
\* already present, leaves the collection as it is; null handles are dropped.
falsy(h) == h = NULL \/ h = <<>>
handleOf(e, k) == IF k \in DOMAIN e THEN e[k] ELSE NULL
sameHandle(a, b) == a = b \/ (falsy(a) /\ falsy(b))

connectionExists(edge, es) ==
    \E i \in DOMAIN es :
        /\ es[i].source = edge.source
        /\ es[i].target = edge.target
        /\ sameHandle(handleOf(es[i], "sourceHandle"), handleOf(edge, "sourceHandle"))
        /\ sameHandle(handleOf(es[i], "targetHandle"), handleOf(edge, "targetHandle"))

dropNullHandles(edge) ==
    LET gone == {k \in {"sourceHandle", "targetHandle"} \cap DOMAIN edge : edge[k] = NULL}
    IN [k \in DOMAIN edge \ gone |-> edge[k]]

addEdge(params, es) ==
    IF params.source = <<>> \/ params.target = <<>> THEN es
    ELSE IF connectionExists(params, es) THEN es
    ELSE Append(es, dropNullHandles(params))

\* applyNodeChanges / applyEdgeChanges(changes, elements): the changes of one
\* element are collected by id (a remove or replace discards the ones before
\* it), each element is dropped, replaced or patched in place, and the items
\* of the add changes are appended in the order given.
RECURSIVE changesFor(_, _, _)
changesFor(changes, id, acc) ==
    IF changes = <<>> THEN acc
    ELSE LET c == Head(changes)
         IN IF c.type = "add" \/ c.id # id THEN changesFor(Tail(changes), id, acc)
            ELSE IF c.type \in {"remove", "replace"}
                 THEN changesFor(Tail(changes), id, <<c>>)
                 ELSE changesFor(Tail(changes), id, Append(acc, c))

applyChange(c, element) ==
    CASE c.type = "position" -> Spread(element, [position |-> c.position])
      [] c.type = "select" -> Spread(element, [selected |-> c.selected])
      [] OTHER -> element

RECURSIVE applyAll(_, _)
applyAll(cs, element) ==
    IF cs = <<>> THEN element ELSE applyAll(Tail(cs), applyChange(Head(cs), element))

RECURSIVE applyToElements(_, _)
applyToElements(changes, elements) ==
    IF elements = <<>> THEN <<>>
    ELSE LET el == Head(elements)
             cs == changesFor(changes, el.id, <<>>)
             rest == applyToElements(changes, Tail(elements))
         IN IF cs = <<>> THEN <<el>> \o rest
            ELSE IF cs[1].type = "remove" THEN rest
            ELSE IF cs[1].type = "replace" THEN <<cs[1].item>> \o rest
            ELSE <<applyAll(cs, el)>> \o rest

RECURSIVE addedItems(_)
addedItems(changes) ==
    IF changes = <<>> THEN <<>>
    ELSE (IF Head(changes).type = "add" THEN <<Head(changes).item>> ELSE <<>>)
         \o addedItems(Tail(changes))

applyChanges(changes, elements) ==
    applyToElements(changes, elements) \o addedItems(changes)

\* ------------------------------------------------- externally supplied data
SeqsUpTo(S, n) == UNION {[1..k -> S] : k \in 0..n}

loadedNode(id) ==
    [id |-> id, type |-> "node", position |-> [x |-> 0, y |-> 0],
     data |-> [label |-> <<"N">>, type |-> "node"]]

loadedEdge(id, source, target) ==
    [id |-> id, type |-> "conduit", source |-> source, target |-> target,
     style |-> styleOf(BLUE), markerEnd |-> markerOf(BLUE),
     data |-> edgeDefaults(<<"C", "-">> \o id)]

\* the networks loadNetwork is called with: an id shared by a node and an
\* edge, the 5 / 7 example, an id that is no number, a negative id
Network(ns, es) == [nodes |-> ns, edges |-> es]
Networks ==
    {Network(<<loadedNode(<<"2">>)>>, <<loadedEdge(<<"2">>, <<"x">>, <<"x">>)>>),
     Network(<<loadedNode(<<"5">>)>>, <<loadedEdge(<<"7">>, <<"5">>, <<"5">>)>>),
     Network(<<loadedNode(<<"a">>)>>, <<loadedEdge(<<"1">>, <<"x">>, <<"x">>)>>),
     Network(<<loadedNode(<<"-", "3">>)>>, <<>>)}

NodeChanges ==
    {[type |-> "remove", id |-> i] : i \in RefIds}
    \cup {[type |-> "add", item |-> loadedNode(<<"3">>)]}

\* the changes of the canvas when it only removes nodes
NodeRemovals ==
    {[type |-> "remove", id |-> i] : i \in RefIds}

EdgeChanges ==
    {[type |-> "remove", id |-> i] : i \in RefIds}

\* the canvas adds an element under an id that the collection does not hold yet
addsNewIds(changes, elements) ==
    \A i \in DOMAIN changes :
        changes[i].type = "add" =>
            /\ changes[i].item.id \notin Ids(elements)
            /\ \A j \in DOMAIN changes :
                   (j # i /\ changes[j].type = "add") => changes[j].item.id # changes[i].item.id

NodePatches == {[label |-> <<"P">>]}
\* patches that overwrite a key, add a key, and do both at once
NodeDataPatches ==
    {[label |-> <<"P">>], [comment |-> "checked"], [elevation |-> 75, comment |-> "raised"]}
EdgePatches == {[type |-> "dummy"], [type |-> "conduit"], [length |-> 250]}

\* ------------------------------------------------------------- the store
Op(op, arg, ret) == [op |-> op, arg |-> arg, ret |-> ret]

Init ==
    /\ variant \in Variants
    /\ nodes = <<>>
    /\ edges = <<>>
    /\ selectedElementId = NULL
    /\ selectedElementType = NULLTYPE
    /\ idCounter = 1
    /\ lastOp = Op("create", NULL, NULL)
    /\ issuedSinceLoad = {}
    /\ issuedSinceReset = {}
    /\ pending = "idle"

\* a getId that returns the same id every time (fault seeded for C17)
getIdFirst == <<"1">>
\* const getId = () => `${idCounter++}`
getId == NumToString(idCounter)
\* a getId that reads the counter without advancing it (fault seeded for C5)
nextCounterStuck(c) == c
nextCounter(c) == c + 1

getIdStep(id) ==
    /\ Cardinality(issuedSinceLoad) < MaxIssued
    /\ id = getId
    /\ idCounter' = nextCounter(idCounter)
    /\ issuedSinceLoad' = issuedSinceLoad \cup {id}
    /\ issuedSinceReset' = issuedSinceReset \cup {id}

onNodesChange(changes) ==
    /\ Len(applyChanges(changes, nodes)) <= MaxNodes
    /\ nodes' = applyChanges(changes, nodes)
    /\ lastOp' = Op("onNodesChange", NULL, NULL)
    /\ UNCHANGED <<variant, edges, selectedElementId, selectedElementType, idCounter,
                   issuedSinceLoad, issuedSinceReset, pending>>

onEdgesChange(changes) ==
    /\ Len(applyChanges(changes, edges)) <= MaxEdges
    /\ edges' = applyChanges(changes, edges)
    /\ lastOp' = Op("onEdgesChange", NULL, NULL)
    /\ UNCHANGED <<variant, nodes, selectedElementId, selectedElementType, idCounter,
                   issuedSinceLoad, issuedSinceReset, pending>>

onConnect(connection) ==
    /\ Len(edges) < MaxEdges
    /\ \E id \in {getId} :
        /\ getIdStep(id)
        /\ edges' = addEdge(edgeParams(variant, connection, id, edges), edges)
        /\ lastOp' = Op("onConnect", NULL, id)
    /\ UNCHANGED <<variant, nodes, selectedElementId, selectedElementType, pending>>

addNode(type, position) ==
    /\ Len(nodes) < MaxNodes
    /\ \E id \in {getId} :
        /\ getIdStep(id)
        /\ nodes' = Append(nodes, newNode(id, type, position))
        /\ lastOp' = Op("addNode", NULL, id)
    /\ UNCHANGED <<variant, edges, selectedElementId, selectedElementType, pending>>

\* a merge that ignores the id (fault seeded for C9)
mergeNodeDataAll(node, id, data) == Spread(node, [data |-> Spread(node.data, data)])
\* a merge that puts the patch in the place of the data (fault seeded for C15)
mergeNodeDataReplace(node, id, data) ==
    IF node.id = id THEN Spread(node, [data |-> data]) ELSE node
mergeNodeData(node, id, data) ==
    IF node.id = id THEN Spread(node, [data |-> Spread(node.data, data)]) ELSE node

updateNodeData(id, data) ==
    /\ nodes' = [i \in DOMAIN nodes |-> mergeNodeData(nodes[i], id, data)]
    /\ lastOp' = Op("updateNodeData", id, NULL)
    /\ UNCHANGED <<variant, edges, selectedElementId, selectedElementType, idCounter,
                   issuedSinceLoad, issuedSinceReset, pending>>

\* src/client/src/lib/store.ts:160-182; the body in src/unnamed/part_000:166-168 is empty
mergeEdgeData(v, edge, id, data) ==
    IF v = "idLabel" /\ edge.id = id
    THEN LET newData == Spread(edge.data, data)
             patchType == IF "type" \in DOMAIN data THEN data.type ELSE "undefined"
             style == CASE patchType = "conduit" -> styleOf(BLUE)
                        [] patchType = "dummy" -> dashedStyleOf(GRAY)
                        [] OTHER -> edge.style
             markerEnd == CASE patchType = "conduit" -> markerOf(BLUE)
                            [] patchType = "dummy" -> markerOf(GRAY)
                            [] OTHER -> edge.markerEnd
         IN Spread(edge, [data |-> newData, style |-> style, markerEnd |-> markerEnd])
    ELSE edge

updateEdgeData(id, data) ==
    /\ edges' = [i \in DOMAIN edges |-> mergeEdgeData(variant, edges[i], id, data)]
    /\ lastOp' = Op("updateEdgeData", id, NULL)
    /\ UNCHANGED <<variant, nodes, selectedElementId, selectedElementType, idCounter,
                   issuedSinceLoad, issuedSinceReset, pending>>

\* src/unnamed/part_000:173-174 and :188
remainingNodes(ns, id) == SelectSeq(ns, LAMBDA n : n.id # id)
\* a cascade that looks at the source end only (fault seeded for C2)
remainingEdgesBySource(es, id) == SelectSeq(es, LAMBDA e : e.source # id)
\* a cascade that also drops the edge whose own id is the node's id
\* (fault seeded for C8)
remainingEdgesAlsoById(es, id) ==
    SelectSeq(es, LAMBDA e : e.source # id /\ e.target # id /\ e.id # id)
remainingEdges(es, id) == SelectSeq(es, LAMBDA e : e.source # id /\ e.target # id)
edgesWithout(es, id) == SelectSeq(es, LAMBDA e : e.id # id)

\* src/unnamed/part_000:183-184 and :189-190
selectedIdAfterDelete(selId, id) == IF selId = id THEN NULL ELSE selId
\* a delete that clears the selected id but keeps its kind (fault seeded for C3)
selectedTypeKept(selId, selType, id) == selType
selectedTypeAfterDelete(selId, selType, id) == IF selId = id THEN NULLTYPE ELSE selType

\* deleteElement is an action of src/unnamed/part_000 only
deleteElement(id, type) ==
    /\ variant = "runningCount"
    /\ IF type = "node"
       THEN /\ nodes' = remainingNodes(nodes, id)
            /\ edges' = remainingEdges(edges, id)
       ELSE /\ nodes' = nodes
            /\ edges' = edgesWithout(edges, id)
    /\ selectedElementId' = selectedIdAfterDelete(selectedElementId, id)
    /\ selectedElementType' =
           selectedTypeAfterDelete(selectedElementId, selectedElementType, id)
    /\ lastOp' = Op("deleteElement", <<id, type>>, NULL)
    /\ UNCHANGED <<variant, idCounter, issuedSinceLoad, issuedSinceReset, pending>>

selectElement(id, type) ==
    /\ selectedElementId' = id
    /\ selectedElementType' = type
    /\ lastOp' = Op("selectElement", NULL, NULL)
    /\ UNCHANGED <<variant, nodes, edges, idCounter, issuedSinceLoad, issuedSinceReset, pending>>

\* src/unnamed/part_000:201-206, src/client/src/lib/store.ts:192-197
\* a resynchronisation that leaves the edge ids out (fault seeded for C6)
counterAfterLoadNodesOnly(ns, es) ==
    MathMax0({OrZero(parseInt(ns[i].id)) : i \in DOMAIN ns}) + 1
counterAfterLoad(ns, es) ==
    LET maxId == MathMax0({OrZero(parseInt(ns[i].id)) : i \in DOMAIN ns}
                          \cup {OrZero(parseInt(es[i].id)) : i \in DOMAIN es})
    IN maxId + 1

loadNetwork(ns, es) ==
    /\ idCounter' = counterAfterLoad(ns, es)
    /\ nodes' = ns
    /\ edges' = es
    /\ selectedElementId' = NULL
    /\ selectedElementType' = NULLTYPE
    /\ lastOp' = Op("loadNetwork", NULL, NULL)
    /\ issuedSinceLoad' = {}
    /\ issuedSinceReset' = {}
    /\ UNCHANGED <<variant, pending>>

\* a clearNetwork that keeps the counter (fault seeded for C7)
counterKeptOnClear == idCounter
counterAfterClear == 1

clearNetwork ==
    /\ nodes' = <<>>
    /\ edges' = <<>>
    /\ selectedElementId' = NULL
    /\ selectedElementType' = NULLTYPE
    /\ idCounter' = counterAfterClear
    /\ lastOp' = Op("clearNetwork", NULL, NULL)
    /\ issuedSinceReset' = {}
    /\ UNCHANGED <<variant, issuedSinceLoad, pending>>

Next ==
    \/ \E changes \in SeqsUpTo(NodeChanges, MaxChanges) :
           addsNewIds(changes, nodes) /\ onNodesChange(changes)
    \/ \E changes \in SeqsUpTo(EdgeChanges, MaxChanges) :
           addsNewIds(changes, edges) /\ onEdgesChange(changes)
    \/ \E connection \in Connections : onConnect(connection)
    \/ \E type \in AddTypes, position \in Positions : addNode(type, position)
    \/ \E id \in RefIds, data \in NodePatches : updateNodeData(id, data)
    \/ \E id \in RefIds, data \in EdgePatches : updateEdgeData(id, data)
    \/ \E id \in RefIds, type \in Kinds : deleteElement(id, type)
    \/ \E sel \in Selections : selectElement(sel[1], sel[2])
    \/ \E net \in Networks : loadNetwork(net.nodes, net.edges)
    \/ clearNetwork

Spec == Init /\ [][Next]_vars

\* ------------------------------------------- clearNetwork, step by step
\* zustand's set() calls the subscribers before it returns, and a subscriber
\* may call the store actions.  Every handler but clearNetwork ends with its
\* set(), so what a subscriber does then comes after the whole handler;
\* clearNetwork (src/unnamed/part_000:210-213) calls set() first and assigns
\* idCounter afterwards.  Here its two statements are two steps, and the
\* actions taken while pending = "clearNetwork" are the subscribers' calls.
clearNetworkSet ==
    /\ pending = "idle"
    /\ nodes' = <<>>
    /\ edges' = <<>>
    /\ selectedElementId' = NULL
    /\ selectedElementType' = NULLTYPE
    /\ pending' = "clearNetwork"
    /\ lastOp' = Op("clearNetwork.set", NULL, NULL)
    /\ UNCHANGED <<variant, idCounter, issuedSinceLoad, issuedSinceReset>>

clearNetworkReset ==
    /\ pending = "clearNetwork"
    /\ idCounter' = counterAfterClear
    /\ pending' = "idle"
    /\ lastOp' = Op("clearNetwork", NULL, NULL)
    /\ issuedSinceReset' = {}
    /\ UNCHANGED <<variant, nodes, edges, selectedElementId, selectedElementType,
                   issuedSinceLoad>>

NextObserved ==
    \/ \E connection \in Connections : onConnect(connection)
    \/ \E type \in AddTypes, position \in Positions : addNode(type, position)
    \/ \E net \in Networks : loadNetwork(net.nodes, net.edges)
    \/ clearNetworkSet
    \/ clearNetworkReset

SpecObserved == Init /\ [][NextObserved]_vars

\* ------------------------------------------- addNode with every variant
\* the palette drops each of the five node variants at either position
NextAddNode ==
    \/ \E type \in NodeTypes, position \in DropPositions : addNode(type, position)
    \/ \E connection \in Connections : onConnect(connection)
    \/ \E sel \in Selections : selectElement(sel[1], sel[2])
    \/ \E net \in Networks : loadNetwork(net.nodes, net.edges)

SpecAddNode == Init /\ [][NextAddNode]_vars

\* ------------------------------------------- updateNodeData with more patches
NextUpdateNode ==
    \/ \E type \in AddTypes, position \in Positions : addNode(type, position)
    \/ \E id \in RefIds, data \in NodeDataPatches : updateNodeData(id, data)
    \/ \E connection \in Connections : onConnect(connection)
    \/ \E sel \in Selections : selectElement(sel[1], sel[2])
    \/ \E net \in Networks : loadNetwork(net.nodes, net.edges)

SpecUpdateNode == Init /\ [][NextUpdateNode]_vars

\* ------------------------------------------- the store with its own ids only
\* no loadNetwork, and the canvas adds no elements of its own
NextOwnIds ==
    \/ \E changes \in SeqsUpTo(NodeRemovals, MaxChanges) : onNodesChange(changes)
    \/ \E changes \in SeqsUpTo(EdgeChanges, MaxChanges) : onEdgesChange(changes)
    \/ \E connection \in Connections : onConnect(connection)
    \/ \E type \in AddTypes, position \in Positions : addNode(type, position)
    \/ \E id \in RefIds, data \in NodePatches : updateNodeData(id, data)
    \/ \E id \in RefIds, data \in EdgePatches : updateEdgeData(id, data)
    \/ \E id \in RefIds, type \in Kinds : deleteElement(id, type)
    \/ \E sel \in Selections : selectElement(sel[1], sel[2])
    \/ clearNetwork

SpecOwnIds == Init /\ [][NextOwnIds]_vars

\* ------------------------------------------- connecting and deleting only
NextConnectDelete ==
    \/ \E connection \in Connections : onConnect(connection)
    \/ \E id \in RefIds, type \in Kinds : deleteElement(id, type)

SpecConnectDelete == Init /\ [][NextConnectDelete]_vars

\* =================================================================== claims
UniqueIds(seq) == \A i, j \in DOMAIN seq : i # j => seq[i].id # seq[j].id
Issuing(op) == op.op \in {"addNode", "onConnect"}
Incident(e, id) == e.source = id \/ e.target = id

\* C1: in every reachable state no two nodes share an id and no two edges
\* share an id; in particular the id that addNode (onConnect) assigns is not
\* the id of a node (edge) that is already present.
C1_IdsUnique == UniqueIds(nodes) /\ UniqueIds(edges)

\* C2 (as claimed): whenever a node leaves the node collection, no edge that
\* has it as source or target is left in the resulting state.
C2_NoDanglingEdgeAfterRemoval ==
    [][\A id \in Ids(nodes) \ Ids(nodes') :
           \A i \in DOMAIN edges' : ~Incident(edges'[i], id)]_vars

\* C2 (amended): after deleteElement(id, 'node') neither a node with that id
\* nor an edge with source = id or target = id is left.
C2_DeleteNodeCascades ==
    (lastOp.op = "deleteElement" /\ lastOp.arg[2] = "node")
        => /\ lastOp.arg[1] \notin Ids(nodes)
           /\ \A i \in DOMAIN edges : ~Incident(edges[i], lastOp.arg[1])

\* node "1" was deleted together with its edge 1 -> 2, and the edge 2 -> 2,
\* which does not touch it, is still there
C2_Witness ==
    /\ lastOp = Op("deleteElement", <<<<"1">>, "node">>, NULL)
    /\ issuedSinceReset = {<<"1">>, <<"2">>, <<"3">>}
    /\ nodes = <<>>
    /\ Len(edges) = 1 /\ edges[1].source = <<"2">>

Paired == (selectedElementId = NULL) <=> (selectedElementType = NULLTYPE)

\* C3 (as claimed): selectedElementId is null iff selectedElementType is
\* null, whatever arguments the actions are called with.
C3_SelectionPaired == Paired

\* C3 (amended): the pairing holds initially and every action other than
\* selectElement keeps it (deleteElement, loadNetwork and clearNetwork set or
\* clear both halves together); selectElement stores its two arguments as
\* they are, so the pairing can only be lost by a call that passes exactly
\* one null.
C3_PairingKeptByAllButSelect ==
    /\ Init => Paired
    /\ [][(Paired /\ lastOp'.op # "selectElement") => Paired']_vars

\* the selected node "1" was deleted and the selection went back to (null, null)
C3_Witness ==
    /\ lastOp = Op("deleteElement", <<<<"1">>, "node">>, NULL)
    /\ selectedElementId = NULL /\ selectedElementType = NULLTYPE
    /\ <<"1">> \in issuedSinceReset
    /\ nodes # <<>>

\* C4: deleteElement(id, kind) clears the selection when (id, kind) is the
\* selected element and leaves it unchanged when the deleted element is
\* another one (another id, or the same id with the other kind).
C4_DeleteTouchesOnlyOwnSelection ==
    [][lastOp'.op = "deleteElement" =>
           IF selectedElementId = lastOp'.arg[1] /\ selectedElementType = lastOp'.arg[2]
           THEN selectedElementId' = NULL /\ selectedElementType' = NULLTYPE
           ELSE UNCHANGED <<selectedElementId, selectedElementType>>]_vars

\* C5 (as claimed): in a run without loadNetwork the id counter never
\* decreases and an id that getId hands out was not handed out before.
C5_NoReuseWithoutLoad ==
    [][lastOp'.op # "loadNetwork" =>
           /\ idCounter' >= idCounter
           /\ Issuing(lastOp') => lastOp'.ret \notin issuedSinceLoad]_vars

\* C5 (amended): the same for a run with neither loadNetwork nor
\* clearNetwork: the counter never decreases, addNode and onConnect raise
\* it, and the id they assign was not assigned before, whether or not the
\* element that had it still exists.
C5_NoReuseWithoutReset ==
    [][lastOp'.op \notin {"loadNetwork", "clearNetwork"} =>
           /\ idCounter' >= idCounter
           /\ Issuing(lastOp') =>
                  /\ idCounter' > idCounter
                  /\ lastOp'.ret \notin issuedSinceReset]_vars

\* an id was assigned while an element that got an earlier id is gone again
C5_Witness ==
    /\ lastOp = Op("addNode", NULL, <<"3">>)
    /\ issuedSinceReset = {<<"1">>, <<"2">>, <<"3">>}
    /\ Ids(nodes) = {<<"3">>}
    /\ Ids(edges) = {<<"2">>}

numericValues(ns, es) ==
    {OrZero(parseInt(ns[i].id)) : i \in DOMAIN ns}
    \cup {OrZero(parseInt(es[i].id)) : i \in DOMAIN es}
Loaded ==
    /\ Network(nodes, edges) \in Networks
    /\ selectedElementId = NULL /\ selectedElementType = NULLTYPE

\* C6 (as claimed): after loadNetwork the collections are the supplied ones,
\* nothing is selected and the counter is 1 + the largest numeric value of
\* an id (an id that is no number counts 0, no id at all gives 1); the next
\* addNode or onConnect is assigned the decimal string of that counter.
C6_CounterOnePastLargestId ==
    /\ [](lastOp.op = "loadNetwork" =>
            /\ Loaded
            /\ idCounter = IF numericValues(nodes, edges) = {} THEN 1
                           ELSE 1 + (CHOOSE v \in numericValues(nodes, edges) :
                                         \A w \in numericValues(nodes, edges) : w <= v))
    /\ [][(lastOp.op = "loadNetwork" /\ Issuing(lastOp')) =>
              lastOp'.ret = NumToString(idCounter)]_vars

\* C6 (amended): ... the counter is 1 + the largest of 0 and the numeric
\* values of the ids, the numeric value being the integer parseInt reads at
\* the start of the id (none: 0), so that ids below zero leave it at 1.
C6_CounterOnePastLargestIdOrZero ==
    /\ [](lastOp.op = "loadNetwork" =>
            /\ Loaded
            /\ idCounter >= 1
            /\ \A v \in numericValues(nodes, edges) : idCounter > v
            /\ idCounter - 1 \in numericValues(nodes, edges) \cup {0})
    /\ [][(lastOp.op = "loadNetwork" /\ Issuing(lastOp')) =>
              lastOp'.ret = NumToString(idCounter)]_vars

\* node "5" and edge "7" were loaded and the first addNode got "8"
C6_Witness ==
    /\ lastOp = Op("addNode", NULL, <<"8">>)
    /\ issuedSinceLoad = {<<"8">>}
    /\ Len(nodes) = 2 /\ nodes[1].id = <<"5">> /\ nodes[2].id = <<"8">>
    /\ Len(edges) = 1 /\ edges[1].id = <<"7">>

\* C7: clearNetwork leaves both collections empty, nothing selected and the
\* counter at 1, and the first addNode or onConnect after it is assigned "1".
C7_ClearResets ==
    /\ [](lastOp.op = "clearNetwork" =>
            /\ nodes = <<>> /\ edges = <<>>
            /\ selectedElementId = NULL /\ selectedElementType = NULLTYPE
            /\ idCounter = 1)
    /\ [][(lastOp.op = "clearNetwork" /\ Issuing(lastOp')) => lastOp'.ret = <<"1">>]_vars

\* ids "1" and "2" had been assigned, the store was cleared, and addNode
\* assigned "1" again
C7_Witness ==
    /\ lastOp = Op("addNode", NULL, <<"1">>)
    /\ issuedSinceReset = {<<"1">>}
    /\ <<"2">> \in issuedSinceLoad
    /\ Len(nodes) = 1 /\ nodes[1].id = <<"1">>

otherNodes(ns, id) == SelectSeq(ns, LAMBDA n : n.id # id)
otherEdges(es, id) == SelectSeq(es, LAMBDA e : e.id # id)
edgesAwayFrom(es, id) == SelectSeq(es, LAMBDA e : ~Incident(e, id))

\* C8: deleteElement(id, 'node') leaves the other nodes and the edges that
\* do not touch the node as they were, in value and order;
\* deleteElement(id, 'edge') leaves the nodes and the other edges as they
\* were; neither changes the id counter.
C8_DeleteLeavesTheRest ==
    [][lastOp'.op = "deleteElement" =>
           /\ idCounter' = idCounter
           /\ IF lastOp'.arg[2] = "node"
              THEN /\ otherNodes(nodes', lastOp'.arg[1]) = otherNodes(nodes, lastOp'.arg[1])
                   /\ edgesAwayFrom(edges', lastOp'.arg[1]) = edgesAwayFrom(edges, lastOp'.arg[1])
              ELSE /\ nodes' = nodes
                   /\ otherEdges(edges', lastOp'.arg[1]) = otherEdges(edges, lastOp'.arg[1])]_vars

\* node "1" is deleted: node "2" and the edge 2 -> 2 are what is left
C8_Witness ==
    /\ lastOp = Op("deleteElement", <<<<"1">>, "node">>, NULL)
    /\ issuedSinceReset = {<<"1">>, <<"2">>, <<"3">>}
    /\ Len(nodes) = 1 /\ nodes[1].id = <<"2">>
    /\ Len(edges) = 1 /\ edges[1].id = <<"3">> /\ edges[1].source = <<"2">>

\* C9: updateNodeData / updateEdgeData with an id that no node / edge has
\* changes neither the collections nor the selection nor the id counter.
C9_UpdateOfUnknownIdIsNoOp ==
    [][\/ lastOp'.op = "updateNodeData" /\ lastOp'.arg \notin Ids(nodes)
       \/ lastOp'.op = "updateEdgeData" /\ lastOp'.arg \notin Ids(edges)
       => UNCHANGED storeVars]_vars

\* updateNodeData was called with id "2" while the only node is "1"
C9_Witness ==
    /\ lastOp = Op("updateNodeData", <<"2">>, NULL)
    /\ Len(nodes) = 1 /\ nodes[1].id = <<"1">>
    /\ edges # <<>>

\* C10: updateEdgeData(id, patch) on an existing edge merges the patch into
\* the edge's data; patch.type 'dummy' makes it dashed gray, 'conduit' solid
\* blue, and a patch without type leaves style and marker as they were.
C10_UpdateEdgeDataRestyles ==
    [][\A id \in RefIds, data \in EdgePatches :
           updateEdgeData(id, data) =>
               \A i \in DOMAIN edges :
                   edges[i].id = id =>
                       /\ edges'[i].data = Spread(edges[i].data, data)
                       /\ IF "type" \notin DOMAIN data
                          THEN /\ edges'[i].style = edges[i].style
                               /\ edges'[i].markerEnd = edges[i].markerEnd
                          ELSE IF data.type = "dummy"
                          THEN /\ edges'[i].style = dashedStyleOf(GRAY)
                               /\ edges'[i].markerEnd = markerOf(GRAY)
                          ELSE /\ edges'[i].style = styleOf(BLUE)
                               /\ edges'[i].markerEnd = markerOf(BLUE)]_vars

\* C11: onConnect with a candidate (a, b), a = b and an already connected
\* pair included, makes the edge collection one longer: the edges that were
\* there stay in place, the new edge is last, has the id just drawn, source a,
\* target b and the default engineering data; the nodes do not change.
C11_ConnectAppendsOne ==
    [][\A c \in Connections :
           (c.source # <<>> /\ c.target # <<>> /\ onConnect(c)) =>
               /\ Len(edges') = Len(edges) + 1
               /\ SubSeq(edges', 1, Len(edges)) = edges
               /\ nodes' = nodes
               /\ LET e == edges'[Len(edges')]
                  IN /\ e.id = lastOp'.ret /\ e.id \notin Ids(edges)
                     /\ e.source = c.source /\ e.target = c.target
                     /\ e.data.length = 1000 /\ e.data.diameter = "0.5"
                     /\ e.data.celerity = 1000 /\ e.data.friction = "0.02"
                     /\ e.data.numSegments = 1]_vars

\* C12: a store action is one transition for the subscribers of the store:
\* when they are notified of clearNetwork's change, the id counter is at its
\* reset value already, what is left of the handler after the notification
\* does not change it any more, and the calls a subscriber makes during the
\* notification never lead to two elements with one id.
C12_NotifiedAfterAllEffects ==
    /\ [][(pending = "idle" /\ pending' = "clearNetwork") =>
              idCounter' = counterAfterClear]_vars
    /\ [][(pending = "clearNetwork" /\ pending' = "idle") =>
              idCounter' = idCounter]_vars
    /\ [](UniqueIds(nodes) /\ UniqueIds(edges))

\* the table of defaults by node variant, for the node whose id is the
\* decimal string of n
numberedLabel(n) == <<"N", "o", "d", "e", " ">> \o NumToString(n)
documentedData(type, n) ==
    CASE type = "reservoir" ->
             [label |-> <<"H", "W">>, type |-> type, nodeNumber |-> n, elevation |-> 100]
      [] type = "node" ->
             [label |-> numberedLabel(n), type |-> type, nodeNumber |-> n, elevation |-> 50]
      [] type = "junction" ->
             [label |-> numberedLabel(n), type |-> type, nodeNumber |-> n, elevation |-> 50]
      [] type = "surgeTank" ->
             [label |-> <<"S", "T">>, type |-> type, nodeNumber |-> n,
              topElevation |-> 120, bottomElevation |-> 80, diameter |-> "5",
              celerity |-> 1000, friction |-> "0.01"]
      [] type = "flowBoundary" ->
             [label |-> <<"F", "B">> \o NumToString(n), type |-> type, nodeNumber |-> n,
              scheduleNumber |-> 1]

C14_StyleFollowsType ==
    \A i \in DOMAIN edges :
        /\ edges[i].data.type = "conduit" =>
               /\ edges[i].style = [stroke |-> "#3b82f6", strokeWidth |-> 2]
               /\ edges[i].markerEnd = [type |-> ArrowClosed, color |-> "#3b82f6"]
        /\ edges[i].data.type = "dummy" =>
               /\ edges[i].style = [stroke |-> "#94a3b8", strokeWidth |-> 2,
                                    strokeDasharray |-> "5,5"]
               /\ edges[i].markerEnd = [type |-> ArrowClosed, color |-> "#94a3b8"]

\* C15: updateNodeData(id, patch) on an existing node changes only the data
\* of the node with that id: the keys of the patch take the patch's values,
\* the other keys keep theirs; id, type and position of the node, the other
\* nodes, the order, the edges, the selection and the id counter stay; and
\* the same call once more changes nothing.
C15_UpdateNodeDataMerges ==
    [][\A id \in RefIds, data \in NodeDataPatches :
           (id \in Ids(nodes) /\ updateNodeData(id, data)) =>
               /\ Len(nodes') = Len(nodes)
               /\ \A i \in DOMAIN nodes :
                      IF nodes[i].id = id
                      THEN /\ DOMAIN nodes'[i] = DOMAIN nodes[i]
                           /\ \A f \in DOMAIN nodes[i] \ {"data"} : nodes'[i][f] = nodes[i][f]
                           /\ DOMAIN nodes'[i].data = DOMAIN nodes[i].data \cup DOMAIN data
                           /\ \A k \in DOMAIN data : nodes'[i].data[k] = data[k]
                           /\ \A k \in DOMAIN nodes[i].data \ DOMAIN data :
                                  nodes'[i].data[k] = nodes[i].data[k]
                      ELSE nodes'[i] = nodes[i]
               /\ UNCHANGED <<edges, selectedElementId, selectedElementType, idCounter>>
               /\ [i \in DOMAIN nodes' |-> mergeNodeData(nodes'[i], id, data)] = nodes']_vars

\* node "1" got a new label and then a comment; node "2", the edge and the
\* selection are as they were
C15_Witness ==
    /\ lastOp = Op("updateNodeData", <<"1">>, NULL)
    /\ Len(nodes) = 2 /\ nodes[1].id = <<"1">> /\ nodes[2].id = <<"2">>
    /\ nodes[1].data.label = <<"P">> /\ nodes[1].data.elevation = 50
    /\ "comment" \in DOMAIN nodes[1].data /\ nodes[1].data.comment = "checked"
    /\ nodes[2].data.label = numberedLabel(2)
    /\ edges # <<>>
    /\ selectedElementId = <<"1">> /\ selectedElementType = "node"

\* C16: after deleteElement the selection is not an element that this call
\* removed, be it the element named in the call or an edge that went with
\* its node.
C16_SelectionNotOnRemoved ==
    [][lastOp'.op = "deleteElement" =>
           /\ ~(/\ selectedElementType' = "node"
                /\ selectedElementId' \in Ids(nodes) \ Ids(nodes'))
           /\ ~(/\ selectedElementType' = "edge"
                /\ selectedElementId' \in Ids(edges) \ Ids(edges'))]_vars

Present(id, kind) == id \in Ids(IF kind = "node" THEN nodes ELSE edges)

\* C17: without loadNetwork and without elements added by the canvas, no id
\* is the id of a node and of an edge, nor of two nodes or two edges; so when
\* deleteElement(id, kind) removes an element and id is the id of the selected
\* element, the removed element is the selected one.
C17_NodeAndEdgeIdsDisjoint ==
    /\ [](Ids(nodes) \cap Ids(edges) = {})
    /\ [](UniqueIds(nodes) /\ UniqueIds(edges))
    /\ [][(/\ lastOp'.op = "deleteElement"
           /\ Present(lastOp'.arg[1], lastOp'.arg[2])
           /\ selectedElementId = lastOp'.arg[1]
           /\ selectedElementType # NULLTYPE
           /\ Present(selectedElementId, selectedElementType))
          => lastOp'.arg[2] = selectedElementType]_vars

\* node "1", edges "2" and "3" got their ids from the one counter; edge "2"
\* was deleted while node "1" is selected, and node "1" is still selected
C17_Witness ==
    /\ lastOp = Op("deleteElement", <<<<"2">>, "edge">>, NULL)
    /\ issuedSinceReset = {<<"1">>, <<"2">>, <<"3">>}
    /\ Ids(nodes) = {<<"1">>} /\ Ids(edges) = {<<"3">>}
    /\ selectedElementId = <<"1">> /\ selectedElementType = "node"

\* C18: in the store that labels a new edge C{k+1}, k being the number of
\* conduit edges at that time, no two edges of the collection have the same
\* label, however onConnect and deleteElement are interleaved.
C18_RunningLabelsDistinct ==
    variant = "runningCount" =>
        \A i, j \in DOMAIN edges : i # j => edges[i].data.label # edges[j].data.label

====
